---- MODULE Spec2Model ----
(***************************************************************************)
(* A model of mininet/net.py (class Mininet): the node registry, the       *)
(* address allocator, build/start/stop, waitConnected and the runtime      *)
(* add/remove operations.  Node and link objects are identified by their   *)
(* position in the object tables `nodes' and `linkObjs' (construction      *)
(* order); the Python lists hold these identities.                         *)
(***************************************************************************)
EXTENDS Integers, Sequences, FiniteSets, TLC

\* ------------------------------------------------------------------ bounds
MaxOps == 3          \* calls made on the network in one behaviour
MaxTimeout == 0      \* largest finite timeout, in units of delay
NumCores == 2        \* numCores() of the machine
MaxMonitored == 2    \* hosts of a network monitor() is called on

\* --------------------------------------------------------------- constants
None == -1                       \* Python None for integer-valued slots
NoCls == "None"                  \* cls=None
Delay == 1                       \* one sleep( delay ), the unit of time
IpBaseNum == 167772160           \* 10.0.0.0
PrefixLen == 8

NameOrder == <<"c0", "c1", "h1", "h2", "h3", "s1", "s2", "s3">>
ExplicitIp == [addr |-> <<10, 0, 0, 5>>, plen |-> 8]

\* ----------------------------------------------------------- list helpers
Range(s) == {s[i] : i \in DOMAIN s}

RECURSIVE IndexOf(_, _, _)
IndexOf(s, x, i) ==
    IF i > Len(s) THEN 0
    ELSE IF s[i] = x THEN i ELSE IndexOf(s, x, i + 1)

\* list.remove( x ): drops the first occurrence
ListRemove(s, x) ==
    LET i == IndexOf(s, x, 1)
    IN IF i = 0 THEN s ELSE SubSeq(s, 1, i - 1) \o SubSeq(s, i + 1, Len(s))

\* dict.update
DictUpdate(d, p) ==
    [k \in DOMAIN d \cup DOMAIN p |-> IF k \in DOMAIN p THEN p[k] ELSE d[k]]

EmptyDict == [k \in {} |-> 0]

DictDel(d, k) == [x \in DOMAIN d \ {k} |-> d[x]]

\* ------------------------------------------------- mininet.util conversions
RECURSIVE ShiftRight8(_, _)
ShiftRight8(n, k) == IF k = 0 THEN n ELSE ShiftRight8(n \div 256, k - 1)

ipStr(n) == [i \in 1..4 |-> ShiftRight8(n, 4 - i) % 256]

ipAdd(i, prefixLen, ipBaseNum) ==
    LET size == 2 ^ (32 - prefixLen)
    IN ipStr((ipBaseNum \div size) * size + i)

macColonHex(n) == [i \in 1..6 |-> ShiftRight8(n, 6 - i) % 256]

\* a 48-bit number is held as two 24-bit halves, n = hi * 2^24 + lo
\* a & b and a | b on k-bit numbers
RECURSIVE BitAnd(_, _, _)
BitAnd(a, b, k) ==
    IF k = 0 THEN 0
    ELSE (a % 2) * (b % 2) + 2 * BitAnd(a \div 2, b \div 2, k - 1)

RECURSIVE BitOr(_, _, _)
BitOr(a, b, k) ==
    IF k = 0 THEN 0
    ELSE (IF a % 2 = 1 \/ b % 2 = 1 THEN 1 ELSE 0)
         + 2 * BitOr(a \div 2, b \div 2, k - 1)

And48(x, y) == [hi |-> BitAnd(x.hi, y.hi, 24), lo |-> BitAnd(x.lo, y.lo, 24)]
Or48(x, y) == [hi |-> BitOr(x.hi, y.hi, 24), lo |-> BitOr(x.lo, y.lo, 24)]

\* macColonHex of a 48-bit number: its six bytes, most significant first
macColonHex48(x) ==
    [i \in 1..6 |-> IF i <= 3 THEN ShiftRight8(x.hi, 3 - i) % 256
                              ELSE ShiftRight8(x.lo, 6 - i) % 256]

\* 0xfeffffffffff and 0x020000000000
MacAndMask == [hi |-> 16711679, lo |-> 16777215]
MacOrMask == [hi |-> 131072, lo |-> 0]

\* randMac without the & 0xfeffffffffff
randMacNoClear(draw) == macColonHex48(Or48(draw, MacOrMask))

\* Mininet.randMac, `draw' being the value of random.randint( 1, 2**48 - 1 )
randMac(draw) == macColonHex48(Or48(And48(draw, MacAndMask), MacOrMask))

\* the draws explored: every first octet, with the bits below it all clear
\* or all set; 0 is outside randint( 1, 2**48 - 1 )
Draws ==
    {[hi |-> o * 65536 + r, lo |-> l] :
        o \in 0..255, r \in {0, 65535}, l \in {0, 1, 16777215}}
    \ {[hi |-> 0, lo |-> 0]}

\* numeric value of a dotted quad
ipNum(a) == ((a[1] * 256 + a[2]) * 256 + a[3]) * 256 + a[4]

\* ---------------------------------------------------------------- topology
RankOf(name) == IndexOf(NameOrder, name, 1)

PairLeq(p, q) ==
    \/ RankOf(p[1]) < RankOf(q[1])
    \/ RankOf(p[1]) = RankOf(q[1]) /\ RankOf(p[2]) <= RankOf(q[2])

RECURSIVE InsertSorted(_, _)
InsertSorted(s, p) ==
    IF s = <<>> THEN <<p>>
    ELSE IF PairLeq(s[Len(s)], p) THEN Append(s, p)
    ELSE Append(InsertSorted(SubSeq(s, 1, Len(s) - 1), p), s[Len(s)])

RECURSIVE SortLinks(_)
SortLinks(s) ==
    IF s = <<>> THEN <<>>
    ELSE InsertSorted(SortLinks(SubSeq(s, 1, Len(s) - 1)), s[Len(s)])

Topos == <<
    [hosts |-> <<"h1", "h2">>,
     switches |-> << [name |-> "s1", cls |-> NoCls] >>,
     links |-> << <<"h2", "s1">>, <<"h1", "s1">> >>],
    [hosts |-> <<"h1">>,
     switches |-> << [name |-> "s1", cls |-> NoCls],
                     [name |-> "s2", cls |-> "UserSwitch"] >>,
     links |-> << <<"s1", "s2">>, <<"h1", "s1">>, <<"s1", "s2">> >>] >>

\* topo.links( sort=True, withInfo=True )
TopoLinks(t) == SortLinks(t.links)

\* cn: the object is a Containernet (with no SAP switch and no libvirt host,
\* so that Containernet.stop issues the calls of Mininet.stop and no other)
Config(t, k, ns, macs, arp, pin, port, wait, xt, cn) ==
    [topo |-> t, nCtrl |-> k, inNamespace |-> ns, autoSetMacs |-> macs,
     autoStaticArp |-> arp, autoPinCpus |-> pin, listenPort |-> port,
     waitConn |-> wait, xterms |-> xt, containernet |-> cn]

\* the constructor arguments explored
Configs == {
    Config(0, 1, FALSE, FALSE, FALSE, FALSE, None, FALSE, FALSE, FALSE),
    Config(1, 1, FALSE, TRUE, FALSE, TRUE, 6634, FALSE, TRUE, FALSE),
    Config(2, 1, FALSE, FALSE, TRUE, FALSE, None, TRUE, FALSE, FALSE),
    Config(1, 2, TRUE, FALSE, TRUE, FALSE, 6634, FALSE, TRUE, FALSE),
    Config(2, 0, FALSE, FALSE, FALSE, FALSE, None, FALSE, FALSE, FALSE),
    Config(1, 1, FALSE, FALSE, FALSE, FALSE, None, FALSE, FALSE, TRUE) }

\* switch classes offering batchStartup / batchShutdown: OVSSwitch and its
\* subclass OVSBridge
BatchClasses == {"OVSSwitch", "OVSBridge"}
\* isinstance( node, OVSSwitch )
IsOVSSwitch(n) == n.role = "switch" /\ n.cls \in {"OVSSwitch", "OVSBridge"}

VARIABLES
    cfg,          \* constructor arguments
    nodes,        \* every node object constructed, in construction order
    linkObjs,     \* every link object constructed, in construction order
    nameToNode, hosts, switches, controllers, links, terms,
    nextIP, nextCore, listenPort, built,
    wc,           \* the activation of waitConnected
    calls,        \* collaborator calls issued by the latest operation
    last,         \* the latest operation and how it ended
    trip,         \* the operation a round trip started with
    started,      \* start() has run its start loops at least once
    nops,         \* calls made on the network so far
    mon           \* the activation of the generator monitor() returned

vars == <<cfg, nodes, linkObjs, nameToNode, hosts, switches, controllers,
          links, terms, nextIP, nextCore, listenPort, built, wc,
          calls, last, trip, started, nops, mon>>

\* the fields of self, bundled so that one method can call another
Self ==
    [nodes |-> nodes, linkObjs |-> linkObjs, nameToNode |-> nameToNode,
     hosts |-> hosts, switches |-> switches, controllers |-> controllers,
     links |-> links, terms |-> terms, nextIP |-> nextIP,
     nextCore |-> nextCore, listenPort |-> listenPort, built |-> built,
     calls |-> <<>>]

Commit(N) ==
    /\ nodes' = N.nodes
    /\ linkObjs' = N.linkObjs
    /\ nameToNode' = N.nameToNode
    /\ hosts' = N.hosts
    /\ switches' = N.switches
    /\ controllers' = N.controllers
    /\ links' = N.links
    /\ terms' = N.terms
    /\ nextIP' = N.nextIP
    /\ nextCore' = N.nextCore
    /\ listenPort' = N.listenPort
    /\ built' = N.built
    /\ calls' = N.calls

Call(f, id) == [f |-> f, id |-> id, ids |-> <<>>]
BatchCall(f, ids) == [f |-> f, id |-> 0, ids |-> ids]

NoTrip == [kind |-> "none"]
WcIdle == [pc |-> "idle"]

\* Mininet( topo, ..., build=False ): nothing is built by the constructor
Init ==
    /\ cfg \in Configs
    /\ nodes = <<>>
    /\ linkObjs = <<>>
    /\ nameToNode = EmptyDict
    /\ hosts = <<>>
    /\ switches = <<>>
    /\ controllers = <<>>
    /\ links = <<>>
    /\ terms = <<>>
    /\ nextIP = 1
    /\ nextCore = 0
    /\ listenPort = cfg.listenPort
    /\ built = FALSE
    /\ wc = WcIdle
    /\ calls = <<>>
    /\ last = [op |-> "none", res |-> "none"]
    /\ trip = NoTrip
    /\ started = FALSE
    /\ nops = 0
    /\ mon = [pc |-> "idle"]

\* ------------------------------------------------------------ the registry
\* Mininet.getNodeByName / Mininet.get: dict.get, None when absent
get(N, name) ==
    IF name \in DOMAIN N.nameToNode THEN N.nameToNode[name] ELSE None

\* Mininet.__iter__: the names of chain( hosts, switches, controllers )
NetIter(N) ==
    LET ch == N.hosts \o N.switches \o N.controllers
    IN [i \in 1..Len(ch) |-> N.nodes[ch[i]].name]

\* Mininet.__len__
NetLen(N) == Len(N.hosts) + Len(N.switches) + Len(N.controllers)

\* Mininet.getNextIp: the address, and self with the counter advanced
getNextIp(N) ==
    [ip |-> [addr |-> ipAdd(N.nextIP, PrefixLen, IpBaseNum), plen |-> PrefixLen],
     N |-> [N EXCEPT !.nextIP = @ + 1]]

\* addHost without line 244, self.nextIP += 1
addHostNoAdvance(N, name, cls, params) ==
    LET d0 == [ip |-> [addr |-> ipAdd(N.nextIP, PrefixLen, IpBaseNum),
                       plen |-> PrefixLen]]
        d1 == IF cfg.autoSetMacs
              THEN DictUpdate(d0, [mac |-> macColonHex(N.nextIP)]) ELSE d0
        d2 == IF cfg.autoPinCpus
              THEN DictUpdate(d1, [cores |-> N.nextCore]) ELSE d1
        h == [name |-> name, role |-> "host",
              cls |-> IF cls = NoCls THEN "Host" ELSE cls,
              params |-> DictUpdate(d2, params), given |-> DOMAIN params]
        id == Len(N.nodes) + 1
    IN [N EXCEPT !.nodes = Append(@, h),
                 !.nextCore = IF cfg.autoPinCpus THEN (@ + 1) % NumCores ELSE @,
                 !.hosts = Append(@, id),
                 !.nameToNode = DictUpdate(@, [k \in {name} |-> id])]

\* addHost without line 243, the advance of self.nextCore
addHostCoreStuck(N, name, cls, params) ==
    LET d0 == [ip |-> [addr |-> ipAdd(N.nextIP, PrefixLen, IpBaseNum),
                       plen |-> PrefixLen]]
        d1 == IF cfg.autoSetMacs
              THEN DictUpdate(d0, [mac |-> macColonHex(N.nextIP)]) ELSE d0
        d2 == IF cfg.autoPinCpus
              THEN DictUpdate(d1, [cores |-> N.nextCore]) ELSE d1
        h == [name |-> name, role |-> "host",
              cls |-> IF cls = NoCls THEN "Host" ELSE cls,
              params |-> DictUpdate(d2, params), given |-> DOMAIN params]
        id == Len(N.nodes) + 1
    IN [N EXCEPT !.nodes = Append(@, h),
                 !.nextIP = @ + 1,
                 !.hosts = Append(@, id),
                 !.nameToNode = DictUpdate(@, [k \in {name} |-> id])]

\* Mininet.addHost
addHost(N, name, cls, params) ==
    LET d0 == [ip |-> [addr |-> ipAdd(N.nextIP, PrefixLen, IpBaseNum),
                       plen |-> PrefixLen]]
        d1 == IF cfg.autoSetMacs
              THEN DictUpdate(d0, [mac |-> macColonHex(N.nextIP)]) ELSE d0
        d2 == IF cfg.autoPinCpus
              THEN DictUpdate(d1, [cores |-> N.nextCore]) ELSE d1
        h == [name |-> name, role |-> "host",
              cls |-> IF cls = NoCls THEN "Host" ELSE cls,
              params |-> DictUpdate(d2, params), given |-> DOMAIN params]
        id == Len(N.nodes) + 1
    IN [N EXCEPT !.nodes = Append(@, h),
                 !.nextCore = IF cfg.autoPinCpus THEN (@ + 1) % NumCores ELSE @,
                 !.nextIP = @ + 1,
                 !.hosts = Append(@, id),
                 !.nameToNode = DictUpdate(@, [k \in {name} |-> id])]

\* removeHost without line 268, del self.nameToNode[ name ]
removeHostKeepName(N, name) ==
    LET h == get(N, name)
    IN IF h = None
       THEN [N |-> N, ret |-> FALSE]
       ELSE [N |-> [N EXCEPT !.hosts = ListRemove(@, h),
                             !.calls = Append(@, Call("node.stop", h))],
             ret |-> TRUE]

\* removeHost that hands the address counter back
removeHostReleaseIp(N, name) ==
    LET h == get(N, name)
    IN IF h = None
       THEN [N |-> N, ret |-> FALSE]
       ELSE [N |-> [N EXCEPT !.hosts = ListRemove(@, h),
                             !.nameToNode = DictDel(@, name),
                             !.nextIP = @ - 1,
                             !.calls = Append(@, Call("node.stop", h))],
             ret |-> TRUE]

\* Mininet.removeHost: self afterwards and the value returned
removeHost(N, name) ==
    LET h == get(N, name)
    IN IF h = None
       THEN [N |-> N, ret |-> FALSE]
       ELSE [N |-> [N EXCEPT !.hosts = ListRemove(@, h),
                             !.nameToNode = DictDel(@, name),
                             !.calls = Append(@, Call("node.stop", h))],
             ret |-> TRUE]

\* Containernet.removeHost, lines 1049-1055: self.nameToNode[ name ] raises
\* KeyError for a name that is not registered; for a registered name the
\* method calls self.removeHost, that is itself, until the recursion limit
\* raises RuntimeError
ContainernetRemoveHost(N, name) ==
    [N |-> N, res |-> "raised",
     exc |-> IF name \in DOMAIN N.nameToNode THEN "RuntimeError" ELSE "KeyError"]

\* net.removeHost( name ): the method of the object's class
callRemoveHost(N, name) ==
    IF cfg.containernet
    THEN ContainernetRemoveHost(N, name)
    ELSE [N |-> removeHost(N, name).N,
          res |-> IF removeHost(N, name).ret THEN "True" ELSE "False",
          exc |-> "none"]

\* addSwitch without lines 286-287, self.listenPort += 1
addSwitchNoAdvance(N, name, cls, params) ==
    LET d == DictUpdate([listenPort |-> N.listenPort,
                         inNamespace |-> cfg.inNamespace], params)
        sw == [name |-> name, role |-> "switch",
               cls |-> IF cls = NoCls THEN "OVSSwitch" ELSE cls,
               params |-> d, given |-> DOMAIN params]
        id == Len(N.nodes) + 1
    IN [N EXCEPT !.nodes = Append(@, sw),
                 !.switches = Append(@, id),
                 !.nameToNode = DictUpdate(@, [k \in {name} |-> id])]

\* Mininet.addSwitch
addSwitch(N, name, cls, params) ==
    LET d == DictUpdate([listenPort |-> N.listenPort,
                         inNamespace |-> cfg.inNamespace], params)
        sw == [name |-> name, role |-> "switch",
               cls |-> IF cls = NoCls THEN "OVSSwitch" ELSE cls,
               params |-> d, given |-> DOMAIN params]
        id == Len(N.nodes) + 1
    IN [N EXCEPT !.nodes = Append(@, sw),
                 !.listenPort = IF ~cfg.inNamespace /\ @ # None /\ @ # 0
                                THEN @ + 1 ELSE @,
                 !.switches = Append(@, id),
                 !.nameToNode = DictUpdate(@, [k \in {name} |-> id])]

\* Mininet.addController, given a name and a controller class
addController(N, name) ==
    LET c == [name |-> name, role |-> "controller", cls |-> "Controller",
              params |-> EmptyDict, given |-> {}]
        id == Len(N.nodes) + 1
    IN [N EXCEPT !.nodes = Append(@, c),
                 !.controllers = Append(@, id),
                 !.nameToNode = DictUpdate(@, [k \in {name} |-> id])]

\* node.attach( intf ) for side `side' of link `id'; `listed' tells whether
\* self.links held the link when the call was made
Attach(N, node, id, side) ==
    [f |-> "attach", id |-> node, ids |-> <<id, side>>,
     listed |-> id \in Range(N.links)]

\* addLink without line 420, self.links.append( link )
addLinkNoAppend(N, node1, node2) ==
    [N EXCEPT !.linkObjs = Append(@, [node1 |-> node1, node2 |-> node2])]

\* addLink that keeps at most one link per pair of nodes
addLinkNoParallel(N, node1, node2) ==
    LET id == Len(N.linkObjs) + 1
        a1 == IF IsOVSSwitch(N.nodes[node1])
              THEN <<Attach(N, node1, id, 1)>> ELSE <<>>
        a2 == IF IsOVSSwitch(N.nodes[node2])
              THEN <<Attach(N, node2, id, 2)>> ELSE <<>>
        dup == \E i \in 1..Len(N.links) :
                   {N.linkObjs[N.links[i]].node1, N.linkObjs[N.links[i]].node2}
                       = {node1, node2}
    IN [N EXCEPT !.linkObjs = Append(@, [node1 |-> node1, node2 |-> node2]),
                 !.calls = @ \o a1 \o a2,
                 !.links = IF dup THEN @ ELSE Append(@, id)]

\* addLink with self.links.append( link ) ahead of the attach calls
addLinkAppendFirst(N, node1, node2) ==
    LET id == Len(N.linkObjs) + 1
        N1 == [N EXCEPT !.linkObjs = Append(@, [node1 |-> node1, node2 |-> node2]),
                        !.links = Append(@, id)]
        a1 == IF IsOVSSwitch(N1.nodes[node1])
              THEN <<Attach(N1, node1, id, 1)>> ELSE <<>>
        a2 == IF IsOVSSwitch(N1.nodes[node2])
              THEN <<Attach(N1, node2, id, 2)>> ELSE <<>>
    IN [N1 EXCEPT !.calls = @ \o a1 \o a2]

\* Mininet.addLink, the endpoints given as node objects: the link is
\* constructed (line 410), the OVSSwitch endpoints attach their interface
\* (lines 414-418), the link is appended (line 420)
addLink(N, node1, node2) ==
    LET id == Len(N.linkObjs) + 1
        N1 == [N EXCEPT !.linkObjs = Append(@, [node1 |-> node1, node2 |-> node2])]
        a1 == IF IsOVSSwitch(N1.nodes[node1])
              THEN <<Attach(N1, node1, id, 1)>> ELSE <<>>
        a2 == IF IsOVSSwitch(N1.nodes[node2])
              THEN <<Attach(N1, node2, id, 2)>> ELSE <<>>
    IN [N1 EXCEPT !.calls = @ \o a1 \o a2,
                  !.links = Append(@, id)]

\* the search matching a link that touches either node
RECURSIVE FindLinkOneEnd(_, _, _, _)
FindLinkOneEnd(N, node1, node2, i) ==
    IF i > Len(N.links) THEN None
    ELSE LET l == N.linkObjs[N.links[i]]
         IN IF l.node1 \in {node1, node2} \/ l.node2 \in {node1, node2}
            THEN N.links[i]
            ELSE FindLinkOneEnd(N, node1, node2, i + 1)

\* the search without the break: the last link joining node1 and node2
RECURSIVE FindLinkLast(_, _, _, _)
FindLinkLast(N, node1, node2, i) ==
    IF i > Len(N.links) THEN None
    ELSE LET l == N.linkObjs[N.links[i]]
             rest == FindLinkLast(N, node1, node2, i + 1)
         IN IF rest # None THEN rest
            ELSE IF \/ l.node1 = node1 /\ l.node2 = node2
                    \/ l.node1 = node2 /\ l.node2 = node1
                 THEN N.links[i]
                 ELSE None

\* the search of Mininet.removeLink: the first link joining node1 and node2
RECURSIVE FindLink(_, _, _, _)
FindLink(N, node1, node2, i) ==
    IF i > Len(N.links) THEN None
    ELSE LET l == N.linkObjs[N.links[i]]
         IN IF \/ l.node1 = node1 /\ l.node2 = node2
               \/ l.node1 = node2 /\ l.node2 = node1
            THEN N.links[i]
            ELSE FindLink(N, node1, node2, i + 1)

\* removeLink without line 452, self.links.remove( link )
removeLinkObjKeep(N, link) ==
    IF link = None
    THEN N
    ELSE [N EXCEPT !.calls = Append(@, Call("link.delete", link))]

\* Mininet.removeLink once the link is known (None: not found)
removeLinkObj(N, link) ==
    IF link = None
    THEN N
    ELSE [N EXCEPT !.calls = Append(@, Call("link.delete", link)),
                   !.links = ListRemove(@, link)]

\* an endpoint argument of removeLink: a name, or a node object
ByName(name) == [isName |-> TRUE, v |-> name]
ByObject(id) == [isName |-> FALSE, v |-> id]

\* lines 429-438: the names are looked up only when node1 and node2 are both
\* strings; a string left in place is compared with the nodes of the links
\* and equals none of them
ResolveEnds(N, e1, e2) ==
    IF e1.isName /\ e2.isName
    THEN <<get(N, e1.v), get(N, e2.v)>>
    ELSE <<IF e1.isName THEN None ELSE e1.v,
           IF e2.isName THEN None ELSE e2.v>>

\* Mininet.removeLink( node1=e1, node2=e2 )
removeLinkEnds(N, e1, e2) ==
    LET r == ResolveEnds(N, e1, e2)
    IN removeLinkObj(N, FindLink(N, r[1], r[2], 1))

\* Mininet.removeLink( node1=name1, node2=name2 )
removeLink(N, name1, name2) ==
    removeLinkEnds(N, ByName(name1), ByName(name2))

\* ------------------------------------------------------------------- build
\* 'c%d' % i
CtrlName(i) == <<"c0", "c1", "c2">>[i + 1]

\* lines 490-495: for i, cls in enumerate( classes )
RECURSIVE AddDefaultControllers(_, _, _)
AddDefaultControllers(N, i, k) ==
    IF i >= k THEN N
    ELSE AddDefaultControllers(addController(N, CtrlName(i)), i + 1, k)

RECURSIVE AddTopoHosts(_, _, _)
AddTopoHosts(N, hs, i) ==
    IF i > Len(hs) THEN N
    ELSE AddTopoHosts(addHost(N, hs[i], NoCls, EmptyDict), hs, i + 1)

RECURSIVE AddTopoSwitches(_, _, _)
AddTopoSwitches(N, ss, i) ==
    IF i > Len(ss) THEN N
    ELSE AddTopoSwitches(addSwitch(N, ss[i].name, ss[i].cls, EmptyDict), ss, i + 1)

RECURSIVE AddTopoLinks(_, _, _)
AddTopoLinks(N, ls, i) ==
    IF i > Len(ls) THEN N
    ELSE AddTopoLinks(addLink(N, N.nameToNode[ls[i][1]], N.nameToNode[ls[i][2]]),
                      ls, i + 1)

\* buildFromTopo with the default controllers added after the links
buildFromTopoControllersLast(N, topo) ==
    LET N2 == AddTopoHosts(N, topo.hosts, 1)
        N3 == AddTopoSwitches(N2, topo.switches, 1)
        N4 == AddTopoLinks(N3, TopoLinks(topo), 1)
    IN IF N.controllers = <<>> /\ cfg.nCtrl > 0
       THEN AddDefaultControllers(N4, 0, cfg.nCtrl) ELSE N4

\* Mininet.buildFromTopo
buildFromTopo(N, topo) ==
    LET N1 == IF N.controllers = <<>> /\ cfg.nCtrl > 0
              THEN AddDefaultControllers(N, 0, cfg.nCtrl) ELSE N
        N2 == AddTopoHosts(N1, topo.hosts, 1)
        N3 == AddTopoSwitches(N2, topo.switches, 1)
    IN AddTopoLinks(N3, TopoLinks(topo), 1)

\* Mininet.configHosts
configHosts(N) ==
    [N EXCEPT !.calls = @ \o [i \in 1..Len(N.hosts) |-> Call("configDefault", N.hosts[i])]]

\* Mininet.startTerms, with DISPLAY set: one terminal per node
startTerms(N) ==
    [N EXCEPT !.terms = @ \o N.controllers \o N.switches \o N.hosts,
              !.calls = Append(@, BatchCall("makeTerms",
                                 N.controllers \o N.switches \o N.hosts))]

\* the ordered pairs ( src, dst ) of Mininet.staticArp
RECURSIVE ArpCalls(_, _, _)
ArpCalls(hs, i, j) ==
    IF i > Len(hs) THEN <<>>
    ELSE IF j > Len(hs) THEN ArpCalls(hs, i + 1, 1)
    ELSE (IF hs[i] # hs[j]
          THEN <<[f |-> "setARP", id |-> hs[i], ids |-> <<hs[j]>>]>> ELSE <<>>)
         \o ArpCalls(hs, i, j + 1)

\* Mininet.staticArp
staticArp(N) == [N EXCEPT !.calls = @ \o ArpCalls(N.hosts, 1, 1)]

\* build with the control-network hook called after the other steps
buildHookLast(N) ==
    LET N1 == IF cfg.topo # 0 THEN buildFromTopo(N, Topos[cfg.topo]) ELSE N
        N2 == configHosts(N1)
        N3 == IF cfg.xterms THEN startTerms(N2) ELSE N2
        N4 == IF cfg.autoStaticArp THEN staticArp(N3) ELSE N3
    IN IF cfg.inNamespace
       THEN [N |-> N4, raised |-> TRUE]
       ELSE [N |-> [N4 EXCEPT !.built = TRUE], raised |-> FALSE]

\* build that leaves self.built as it is
buildNoFlag(N) ==
    LET N1 == IF cfg.topo # 0 THEN buildFromTopo(N, Topos[cfg.topo]) ELSE N
        N2 == configHosts(N1)
        N3 == IF cfg.xterms THEN startTerms(N2) ELSE N2
        N4 == IF cfg.autoStaticArp THEN staticArp(N3) ELSE N3
    IN IF cfg.inNamespace
       THEN [N |-> N1, raised |-> TRUE]
       ELSE [N |-> N4, raised |-> FALSE]

\* Mininet.build: self afterwards, and whether an exception left it
build(N) ==
    LET N1 == IF cfg.topo # 0 THEN buildFromTopo(N, Topos[cfg.topo]) ELSE N
        N2 == configHosts(N1)
        N3 == IF cfg.xterms THEN startTerms(N2) ELSE N2
        N4 == IF cfg.autoStaticArp THEN staticArp(N3) ELSE N3
    IN IF cfg.inNamespace
       THEN [N |-> N1, raised |-> TRUE]     \* configureControlNetwork raises
       ELSE [N |-> [N4 EXCEPT !.built = TRUE], raised |-> FALSE]

\* ------------------------------------------------------------ start, stop
\* sorted( self.switches, key=type ) grouped by type: the switches of a class
ClassGroup(N, c) == SelectSeq(N.switches, LAMBDA s : N.nodes[s].cls = c)

\* the order sorted( ..., key=type ) puts the classes in
ClassOrder == <<"OVSBridge", "OVSSwitch", "UserSwitch">>

\* the batch loop without the hasattr test: a batch call for every class
RECURSIVE BatchCallsEveryClass(_, _, _)
BatchCallsEveryClass(N, f, i) ==
    IF i > Len(ClassOrder) THEN <<>>
    ELSE (IF ClassGroup(N, ClassOrder[i]) # <<>>
          THEN <<BatchCall(f, ClassGroup(N, ClassOrder[i]))>> ELSE <<>>)
         \o BatchCallsEveryClass(N, f, i + 1)

\* lines 577-582 and 604-609: one batch call per class that offers it
RECURSIVE BatchCalls(_, _, _)
BatchCalls(N, f, i) ==
    IF i > Len(ClassOrder) THEN <<>>
    ELSE (IF ClassOrder[i] \in BatchClasses /\ ClassGroup(N, ClassOrder[i]) # <<>>
          THEN <<BatchCall(f, ClassGroup(N, ClassOrder[i]))>> ELSE <<>>)
         \o BatchCalls(N, f, i + 1)

\* start with the switch loop ahead of the controller loop
startCallsSwitchesFirst(N) ==
    [i \in 1..Len(N.switches) |->
           [f |-> "switch.start", id |-> N.switches[i], ids |-> N.controllers]]
    \o [i \in 1..Len(N.controllers) |-> Call("controller.start", N.controllers[i])]
    \o BatchCalls(N, "batchStartup", 1)

\* the calls of Mininet.start after the build
startCalls(N) ==
    [i \in 1..Len(N.controllers) |-> Call("controller.start", N.controllers[i])]
    \o [i \in 1..Len(N.switches) |->
           [f |-> "switch.start", id |-> N.switches[i], ids |-> N.controllers]]
    \o BatchCalls(N, "batchStartup", 1)

\* the switch loop with terminate left to the switches stop is called on
RECURSIVE SwitchStopCallsSkipBatch(_, _, _)
SwitchStopCallsSkipBatch(sw, stopped, i) ==
    IF i > Len(sw) THEN <<>>
    ELSE (IF sw[i] \notin stopped
          THEN <<Call("switch.stop", sw[i]), Call("switch.terminate", sw[i])>>
          ELSE <<>>)
         \o SwitchStopCallsSkipBatch(sw, stopped, i + 1)

\* lines 610-614: stop unless batchShutdown reported the switch, then terminate
RECURSIVE SwitchStopCalls(_, _, _)
SwitchStopCalls(sw, stopped, i) ==
    IF i > Len(sw) THEN <<>>
    ELSE (IF sw[i] \notin stopped THEN <<Call("switch.stop", sw[i])>> ELSE <<>>)
         \o <<Call("switch.terminate", sw[i])>>
         \o SwitchStopCalls(sw, stopped, i + 1)

\* stop with the links stopped after the switches
stopCallsLinksLate(N, stopped) ==
    [i \in 1..Len(N.controllers) |-> Call("controller.stop", N.controllers[i])]
    \o (IF N.terms # <<>> THEN <<BatchCall("stopXterms", N.terms)>> ELSE <<>>)
    \o BatchCalls(N, "batchShutdown", 1)
    \o SwitchStopCalls(N.switches, stopped, 1)
    \o [i \in 1..Len(N.links) |-> Call("link.stop", N.links[i])]
    \o [i \in 1..Len(N.hosts) |-> Call("host.terminate", N.hosts[i])]

\* stop with the host loop running from the last host to the first
stopCallsHostsReversed(N, stopped) ==
    [i \in 1..Len(N.controllers) |-> Call("controller.stop", N.controllers[i])]
    \o (IF N.terms # <<>> THEN <<BatchCall("stopXterms", N.terms)>> ELSE <<>>)
    \o [i \in 1..Len(N.links) |-> Call("link.stop", N.links[i])]
    \o BatchCalls(N, "batchShutdown", 1)
    \o SwitchStopCalls(N.switches, stopped, 1)
    \o [i \in 1..Len(N.hosts) |->
           Call("host.terminate", N.hosts[Len(N.hosts) + 1 - i])]

\* the calls of Mininet.stop when none of them raises; `stopped' holds the
\* switches the batchShutdown calls report
stopCalls(N, stopped) ==
    [i \in 1..Len(N.controllers) |-> Call("controller.stop", N.controllers[i])]
    \o (IF N.terms # <<>> THEN <<BatchCall("stopXterms", N.terms)>> ELSE <<>>)
    \o [i \in 1..Len(N.links) |-> Call("link.stop", N.links[i])]
    \o BatchCalls(N, "batchShutdown", 1)
    \o SwitchStopCalls(N.switches, stopped, 1)
    \o [i \in 1..Len(N.hosts) |-> Call("host.terminate", N.hosts[i])]

\* the switches a batchStartup or batchShutdown call is given, from which
\* it reports its success
BatchStoppable(N) ==
    {s \in Range(N.switches) : N.nodes[s].cls \in BatchClasses}

\* ------------------------------------------------------------- operations
\* the arguments the operations are called with
HostArgs == {"h1", "h3"}
SwitchArgs == { <<"s1", NoCls>>, <<"s3", "OVSBridge">> }
ControllerArgs == {"c0"}
RemoveArgs == {"h1", "h3", "s1"}
LinkArgs == { <<"h1", "s1">>, <<"s1", "h3">>, <<"s1", "s2">> }
UnlinkArgs == { <<"h1", "s1">>, <<"s1", "h1">>, <<"s2", "s1">>, <<"h3", "s1">> }

Timeouts == {None} \cup 0..MaxTimeout

NetVars == <<nodes, linkObjs, nameToNode, hosts, switches, controllers,
             links, terms, nextIP, nextCore, listenPort, built>>

\* a call is in progress, or its outcome has not been taken yet
Running == wc.pc # "idle" \/ last.op # "none" \/ mon.pc # "idle"

NoCall == [op |-> "none", res |-> "none"]

\* waitConnected with a default timeout of 0 in place of None
WcEnterZeroDefault(N, timeout, caller) ==
    [pc |-> "poll", timeout |-> IF timeout = None THEN 0 ELSE timeout,
     time |-> 0, remaining |-> N.switches, caller |-> caller, seen |-> {}]

\* waitConnected entered: remaining = list( self.switches ), time = 0
WcEnter(N, timeout, caller) ==
    [pc |-> "poll", timeout |-> timeout, time |-> 0, remaining |-> N.switches,
     caller |-> caller, seen |-> {}]

\* what an add operation leaves behind: whether the name was registered
\* already, and if so the registry as it was
Added(op, name) ==
    [op |-> op, res |-> "ok", dup |-> name \in DOMAIN nameToNode,
     pre |-> IF name \in DOMAIN nameToNode
             THEN [nameToNode |-> nameToNode, hosts |-> hosts,
                   switches |-> switches, controllers |-> controllers]
             ELSE EmptyDict]

Build ==
    /\ ~Running
    /\ nops < MaxOps
    /\ LET B == build(Self)
       IN /\ Commit(B.N)
          /\ last' = [op |-> "build",
                      res |-> IF B.raised THEN "raised" ELSE "ok",
                      fresh |-> hosts = <<>> /\ switches = <<>> /\ links = <<>>,
                      pre |-> [nodes |-> Len(nodes), controllers |-> controllers,
                               linkObjs |-> Len(linkObjs)]]
    /\ trip' = NoTrip
    /\ nops' = nops + 1
    /\ UNCHANGED <<cfg, mon, wc, started>>

\* start(): `success' holds the switches the batchStartup calls report
Start ==
    /\ ~Running
    /\ nops < MaxOps
    /\ LET B == IF ~built THEN build(Self) ELSE [N |-> Self, raised |-> FALSE]
       IN IF B.raised
          THEN /\ Commit(B.N)
               /\ last' = [op |-> "start", res |-> "raised", wasBuilt |-> built,
                           success |-> {}]
               /\ UNCHANGED <<wc, started>>
          ELSE /\ Commit([B.N EXCEPT !.calls = @ \o startCalls(B.N)])
               /\ \E success \in SUBSET BatchStoppable(B.N) :
                    last' = [op |-> "start", res |-> "ok", wasBuilt |-> built,
                             success |-> success]
               /\ started' = TRUE
               /\ wc' = IF cfg.waitConn
                        THEN WcEnter(B.N, None, "start") ELSE wc
    /\ trip' = NoTrip
    /\ nops' = nops + 1
    /\ UNCHANGED <<cfg, mon>>

\* stop() that marks the network as not built
StopUnbuilds ==
    /\ ~Running
    /\ nops < MaxOps
    /\ \E stopped \in SUBSET BatchStoppable(Self) :
         LET full == stopCalls(Self, stopped)
         IN \E f \in 0..Len(full) :
              /\ calls' = IF f = 0 THEN full ELSE SubSeq(full, 1, f)
              /\ last' = [op |-> "stop",
                          res |-> IF f = 0 THEN "ok" ELSE "raised",
                          stopped |-> stopped]
    /\ trip' = NoTrip
    /\ nops' = nops + 1
    /\ built' = FALSE
    /\ UNCHANGED <<cfg, mon, nodes, linkObjs, nameToNode, hosts, switches,
                   controllers, links, terms, nextIP, nextCore, listenPort,
                   wc, started>>

\* stop(): `f' is the call that raises, 0 when none does
Stop ==
    /\ ~Running
    /\ nops < MaxOps
    /\ \E stopped \in SUBSET BatchStoppable(Self) :
         LET full == stopCalls(Self, stopped)
         IN \E f \in 0..Len(full) :
              /\ calls' = IF f = 0 THEN full ELSE SubSeq(full, 1, f)
              /\ last' = [op |-> "stop",
                          res |-> IF f = 0 THEN "ok" ELSE "raised",
                          stopped |-> stopped]
    /\ trip' = NoTrip
    /\ nops' = nops + 1
    /\ UNCHANGED <<cfg, mon, NetVars, wc, started>>

\* run( test ) up to the return of self.start(), lines 622-624
Run ==
    /\ ~Running
    /\ nops < MaxOps
    /\ LET B == IF ~built THEN build(Self) ELSE [N |-> Self, raised |-> FALSE]
       IN IF B.raised
          THEN /\ Commit(B.N)
               /\ last' = [op |-> "run", res |-> "raised", phase |-> "start",
                           stopCalled |-> FALSE, startLen |-> 0]
               /\ UNCHANGED <<wc, started>>
          ELSE /\ Commit([B.N EXCEPT !.calls = @ \o startCalls(B.N)])
               /\ last' = [op |-> "run", res |-> "running", phase |-> "start",
                           stopCalled |-> FALSE,
                           startLen |-> Len(B.N.calls) + Len(startCalls(B.N))]
               /\ started' = TRUE
               /\ wc' = IF cfg.waitConn
                        THEN WcEnter(B.N, None, "run") ELSE wc
    /\ trip' = NoTrip
    /\ nops' = nops + 1
    /\ UNCHANGED <<cfg, mon>>

\* self.start() of a run() has returned and the test has not been called
RunPending ==
    /\ wc.pc = "idle"
    /\ \/ last.op = "run" /\ last.res = "running"
       \/ last.op = "waitConnected" /\ last.res # "polling" /\ last.caller = "run"

\* run( test ) from the call of the test on, lines 625-628: the test
\* returns or raises; self.stop() is the statement after it, and `f' is the
\* call of stop() that raises, 0 when none does
RunTest ==
    /\ RunPending
    /\ \E testRaises \in BOOLEAN :
         IF testRaises
         THEN /\ calls' = calls
              /\ last' = [op |-> "run", res |-> "raised", phase |-> "test",
                          stopCalled |-> FALSE, startLen |-> Len(calls)]
         ELSE \E stopped \in SUBSET BatchStoppable(Self) :
                LET full == stopCalls(Self, stopped)
                IN \E f \in 0..Len(full) :
                     /\ calls' = calls \o (IF f = 0 THEN full
                                                    ELSE SubSeq(full, 1, f))
                     /\ last' = [op |-> "run",
                                 res |-> IF f = 0 THEN "ok" ELSE "raised",
                                 phase |-> "stop", stopCalled |-> TRUE,
                                 startLen |-> Len(calls)]
    /\ UNCHANGED <<cfg, mon, NetVars, wc, trip, started, nops>>

GetNextIp ==
    /\ ~Running
    /\ nops < MaxOps
    /\ Commit(getNextIp(Self).N)
    /\ last' = [op |-> "getNextIp", res |-> "ok", ip |-> getNextIp(Self).ip]
    /\ trip' = NoTrip
    /\ nops' = nops + 1
    /\ UNCHANGED <<cfg, mon, wc, started>>

AddHost ==
    /\ ~Running
    /\ nops < MaxOps
    /\ \E name \in HostArgs, override \in BOOLEAN :
         /\ override => name = "h3"
         /\ Commit(addHost(Self, name, NoCls,
                           IF override THEN [ip |-> ExplicitIp] ELSE EmptyDict))
         /\ last' = Added("addHost", name)
         /\ trip' = IF name \notin DOMAIN nameToNode
                    THEN [kind |-> "addHost", name |-> name, done |-> FALSE,
                          nameToNode |-> nameToNode, hosts |-> hosts]
                    ELSE NoTrip
    /\ nops' = nops + 1
    /\ UNCHANGED <<cfg, mon, wc, started>>

RemoveHost ==
    /\ ~Running
    /\ nops < MaxOps
    /\ \E name \in RemoveArgs :
         LET R == callRemoveHost(Self, name)
         IN /\ Commit(R.N)
            /\ last' = [op |-> "removeHost", res |-> R.res, exc |-> R.exc,
                        name |-> name,
                        known |-> name \in DOMAIN nameToNode,
                        pre |-> [nameToNode |-> nameToNode, hosts |-> hosts,
                                 switches |-> switches,
                                 controllers |-> controllers, links |-> links]]
            /\ trip' = IF /\ trip.kind = "addHost" /\ ~trip.done
                          /\ trip.name = name /\ ~cfg.containernet
                       THEN [trip EXCEPT !.done = TRUE]
                       ELSE NoTrip
    /\ nops' = nops + 1
    /\ UNCHANGED <<cfg, mon, wc, started>>

AddSwitch ==
    /\ ~Running
    /\ nops < MaxOps
    /\ \E a \in SwitchArgs :
         /\ Commit(addSwitch(Self, a[1], a[2], EmptyDict))
         /\ last' = Added("addSwitch", a[1])
    /\ trip' = NoTrip
    /\ nops' = nops + 1
    /\ UNCHANGED <<cfg, mon, wc, started>>

AddController ==
    /\ ~Running
    /\ nops < MaxOps
    /\ \E name \in ControllerArgs :
         /\ Commit(addController(Self, name))
         /\ last' = Added("addController", name)
    /\ trip' = NoTrip
    /\ nops' = nops + 1
    /\ UNCHANGED <<cfg, mon, wc, started>>

\* addLink( name1, name2 ) with both names registered
AddLink ==
    /\ ~Running
    /\ nops < MaxOps
    /\ \E a \in LinkArgs :
         /\ a[1] \in DOMAIN nameToNode /\ a[2] \in DOMAIN nameToNode
         /\ Commit(addLink(Self, nameToNode[a[1]], nameToNode[a[2]]))
         /\ trip' = IF /\ trip.kind = "removeLink" /\ ~trip.done
                       /\ {nameToNode[a[1]], nameToNode[a[2]]} = trip.ends
                    THEN [trip EXCEPT !.done = TRUE]
                    ELSE NoTrip
         /\ last' = [op |-> "addLink", res |-> "ok", pre |-> links,
                     ends |-> <<nameToNode[a[1]], nameToNode[a[2]]>>]
    /\ nops' = nops + 1
    /\ UNCHANGED <<cfg, mon, wc, started>>

RemoveTrip(l) ==
    IF l = None THEN NoTrip
    ELSE [kind |-> "removeLink", done |-> FALSE, link |-> l,
          ends |-> {linkObjs[l].node1, linkObjs[l].node2}, size |-> Len(links)]

\* removeLink( node1=name1, node2=name2 )
RemoveLink ==
    /\ ~Running
    /\ nops < MaxOps
    /\ \E a \in UnlinkArgs :
         LET l == FindLink(Self, get(Self, a[1]), get(Self, a[2]), 1)
         IN /\ Commit(removeLink(Self, a[1], a[2]))
            /\ last' = [op |-> "removeLink", byNames |-> TRUE,
                        res |-> IF l = None THEN "notfound" ELSE "ok",
                        ends |-> <<get(Self, a[1]), get(Self, a[2])>>,
                        form |-> <<TRUE, TRUE>>,
                        intended |-> <<get(Self, a[1]), get(Self, a[2])>>,
                        pre |-> links]
            /\ trip' = RemoveTrip(l)
    /\ nops' = nops + 1
    /\ UNCHANGED <<cfg, mon, wc, started>>

\* removeLink( node1=.., node2=.. ) with a node object for one endpoint or
\* for both; `intended' holds the nodes the caller means
RemoveLinkEnds ==
    /\ ~Running
    /\ nops < MaxOps
    /\ \E a \in UnlinkArgs, n1, n2 \in BOOLEAN :
         /\ ~(n1 /\ n2)
         /\ a[1] \in DOMAIN nameToNode /\ a[2] \in DOMAIN nameToNode
         /\ LET e1 == IF n1 THEN ByName(a[1]) ELSE ByObject(nameToNode[a[1]])
                e2 == IF n2 THEN ByName(a[2]) ELSE ByObject(nameToNode[a[2]])
                r == ResolveEnds(Self, e1, e2)
                l == FindLink(Self, r[1], r[2], 1)
            IN /\ Commit(removeLinkEnds(Self, e1, e2))
               /\ last' = [op |-> "removeLink", byNames |-> FALSE,
                           res |-> IF l = None THEN "notfound" ELSE "ok",
                           ends |-> r,
                           form |-> <<n1, n2>>,
                           intended |-> <<nameToNode[a[1]], nameToNode[a[2]]>>,
                           pre |-> links]
               /\ trip' = RemoveTrip(l)
    /\ nops' = nops + 1
    /\ UNCHANGED <<cfg, mon, wc, started>>

\* removeLink( link ) with a link of the link set
RemoveLinkObject ==
    /\ ~Running
    /\ nops < MaxOps
    /\ \E l \in Range(links) :
         /\ Commit(removeLinkObj(Self, l))
         /\ trip' = RemoveTrip(l)
    /\ last' = [op |-> "removeLink", byNames |-> FALSE, res |-> "ok"]
    /\ nops' = nops + 1
    /\ UNCHANGED <<cfg, mon, wc, started>>

\* ----------------------------------------------------------- waitConnected
WaitConnected ==
    /\ ~Running
    /\ nops < MaxOps
    /\ \E timeout \in Timeouts : wc' = WcEnter(Self, timeout, "user")
    /\ last' = [op |-> "waitConnected", res |-> "polling"]
    /\ trip' = NoTrip
    /\ calls' = <<>>
    /\ nops' = nops + 1
    /\ UNCHANGED <<cfg, mon, NetVars, started>>

\* lines 213-218: for switch in remaining, over the list it removes from;
\* `c' holds the switches whose connected() answers True
RECURSIVE FinalLoop(_, _, _, _)
FinalLoop(rem, i, warned, c) ==
    IF i > Len(rem) THEN [remaining |-> rem, warned |-> warned]
    ELSE IF rem[i] \notin c
         THEN FinalLoop(rem, i + 1, Append(warned, rem[i]), c)
         ELSE FinalLoop(ListRemove(rem, rem[i]), i + 1, warned, c)

\* line 208: time > timeout without the test for None
TimedOutAnyTimeout(time, timeout) == time > timeout

\* line 208: time > timeout and timeout is not None
TimedOut(time, timeout) == timeout # None /\ time > timeout

\* what waitConnected leaves behind when it returns
WcReturn(path, result, remaining, warned, seen, atBreak, c) ==
    [op |-> "waitConnected", res |-> IF result THEN "True" ELSE "False",
     path |-> path, caller |-> wc.caller, timeout |-> wc.timeout,
     remaining |-> remaining, warned |-> warned, seen |-> seen,
     atBreak |-> atBreak, conn |-> c]

\* one pass of the while loop, lines 201-211; `c' holds the remaining
\* switches whose connected() answers True in this pass
WcPoll ==
    /\ wc.pc = "poll"
    /\ \E c \in SUBSET Range(wc.remaining) :
         LET rem == SelectSeq(wc.remaining, LAMBDA s : s \notin c)
             seen == wc.seen \cup c
         IN IF rem = <<>>
            THEN /\ wc' = WcIdle
                 /\ last' = WcReturn("connected", TRUE, rem, <<>>, seen, <<>>, {})
            ELSE /\ last' = last
                 /\ wc' = IF TimedOut(wc.time, wc.timeout)
                          THEN [wc EXCEPT !.pc = "final", !.remaining = rem,
                                          !.seen = seen]
                          ELSE [wc EXCEPT !.remaining = rem, !.seen = seen,
                                          !.time = IF @ > MaxTimeout
                                                   THEN @ ELSE @ + Delay]
    /\ UNCHANGED <<cfg, mon, NetVars, calls, trip, started, nops>>

\* after the break: the re-check and the return, lines 212-219; `c' holds
\* the switches whose connected() answers True now
WcFinal ==
    /\ wc.pc = "final"
    /\ \E c \in SUBSET Range(wc.remaining) :
         LET F == FinalLoop(wc.remaining, 1, <<>>, c)
         IN /\ last' = WcReturn("timeout", F.remaining = <<>>, F.remaining,
                                F.warned,
                                wc.seen \cup (Range(wc.remaining) \ Range(F.remaining)),
                                wc.remaining, c)
    /\ wc' = WcIdle
    /\ UNCHANGED <<cfg, mon, NetVars, calls, trip, started, nops>>

\* the caller takes the outcome of the call that returned or raised and
\* goes on; what was recorded about that call is dropped
Return ==
    /\ wc.pc = "idle"
    /\ last.op # "none"
    /\ ~RunPending
    /\ last' = NoCall
    /\ calls' = <<>>
    /\ UNCHANGED <<cfg, mon, NetVars, wc, trip, started, nops>>

\* Mininet.randMac(), a static method: it reads and changes nothing of the
\* network
RandMac ==
    /\ ~Running
    /\ nops < MaxOps
    /\ \E draw \in Draws :
         last' = [op |-> "randMac", res |-> "ok", draw |-> draw,
                  mac |-> randMac(draw)]
    /\ nops' = nops + 1
    /\ UNCHANGED <<cfg, mon, NetVars, wc, calls, trip, started>>

\* calls of randMac() on a network just constructed
SpecMac == Init /\ [][RandMac \/ Return]_vars

\* ------------------------------------------------------------------ monitor
\* readline() found no complete line
NoLine == "<None>"
\* the pair ( None, None )
Sentinel == [host |-> None, line |-> NoLine]

\* lines 645-650: the for loop over the list poll() returned
RECURSIVE ReadyYields(_, _)
ReadyYields(ready, i) ==
    IF i > Len(ready) THEN <<>>
    ELSE (IF ready[i].pollin /\ ready[i].line # NoLine
          THEN <<[host |-> ready[i].host, line |-> ready[i].line]>> ELSE <<>>)
         \o ReadyYields(ready, i + 1)

\* a pass with line 651 testing timeoutms only
passYieldsNonBlocking(ready, timeoutms) ==
    ReadyYields(ready, 1)
    \o (IF timeoutms >= 0 THEN <<Sentinel>> ELSE <<>>)

\* what one pass of the while loop of monitor yields, lines 644-652
passYields(ready, timeoutms) ==
    ReadyYields(ready, 1)
    \o (IF ready = <<>> /\ timeoutms >= 0 THEN <<Sentinel>> ELSE <<>>)

\* the values of timeoutms explored
MonTimeouts == {-1, 0, 100}

\* net.monitor( timeoutms=t ) and the first next(): hosts = self.hosts, and
\* hosts[ 0 ] raises IndexError when there is no host
Monitor ==
    /\ ~Running
    /\ nops < MaxOps
    /\ Len(hosts) <= MaxMonitored
    /\ \E t \in MonTimeouts :
         IF hosts = <<>>
         THEN /\ mon' = mon
              /\ last' = [op |-> "monitor", res |-> "raised"]
         ELSE /\ mon' = [pc |-> "run", timeoutms |-> t, hosts |-> hosts,
                         closed |-> {}, ready |-> <<>>, yields |-> <<>>,
                         fresh |-> TRUE, tick |-> 0]
              /\ last' = last
    /\ nops' = nops + 1
    /\ UNCHANGED <<cfg, NetVars, wc, calls, trip, started>>

\* one pass of the while loop, lines 643-652.  Streams in `newClosed' close
\* before the poll; a closed stream is reported ready (POLLHUP, with POLLIN
\* when eofIn) and readline() finds no line on it; the streams in `data'
\* have input, a complete line on those in `full'.  poll( timeoutms ) with
\* a negative timeout returns only when a stream is ready.
MonIter ==
    /\ mon.pc = "run"
    /\ \E newClosed \in SUBSET (Range(mon.hosts) \ mon.closed), eofIn \in BOOLEAN :
         LET closed == mon.closed \cup newClosed
         IN \E data \in SUBSET (Range(mon.hosts) \ closed) :
              \E full \in SUBSET data :
                LET readyHosts ==
                        SelectSeq(mon.hosts, LAMBDA h : h \in closed \cup data)
                    ready ==
                        [i \in 1..Len(readyHosts) |->
                            [host |-> readyHosts[i],
                             pollin |-> IF readyHosts[i] \in closed
                                        THEN eofIn ELSE TRUE,
                             hup |-> readyHosts[i] \in closed,
                             line |-> IF readyHosts[i] \in full
                                      THEN "line" ELSE NoLine]]
                IN /\ mon.timeoutms < 0 => ready # <<>>
                   /\ mon' = [mon EXCEPT !.closed = closed, !.ready = ready,
                                         !.yields = passYields(ready, mon.timeoutms),
                                         !.fresh = FALSE, !.tick = 1 - @]
    /\ UNCHANGED <<cfg, NetVars, wc, calls, last, trip, started, nops>>

\* the caller stops consuming: it drops the generator where it is suspended,
\* before the first pass or at a yield
MonStop ==
    /\ mon.pc = "run"
    /\ mon.fresh \/ mon.yields # <<>>
    /\ mon' = [pc |-> "idle"]
    /\ UNCHANGED <<cfg, NetVars, wc, calls, last, trip, started, nops>>

\* the hosts monitored are those of the topology built
NextMon ==
    \/ Build \/ Monitor \/ MonIter \/ MonStop \/ Return

\* monitor() on the hosts of a network; the while loop keeps running
SpecMon == Init /\ [][NextMon]_vars /\ WF_vars(MonIter)

Next ==
    \/ Build \/ Start \/ Stop \/ Run \/ RunTest \/ GetNextIp
    \/ AddHost \/ RemoveHost \/ AddSwitch \/ AddController
    \/ AddLink \/ RemoveLink \/ RemoveLinkEnds \/ RemoveLinkObject
    \/ WaitConnected \/ WcPoll \/ WcFinal \/ Return

Spec == Init /\ [][Next]_vars

\* a pass of the while loop in which the first switch still waited for
\* answers connected
PollConnectsFirst ==
    /\ WcPoll
    /\ wc.remaining # <<>>
    /\ wc'.pc # "idle" => wc.remaining[1] \notin Range(wc'.remaining)

\* the calls that decide which switches a wait is about, and the wait
NextWait ==
    \/ Build \/ Start \/ AddSwitch
    \/ WaitConnected \/ WcPoll \/ WcFinal \/ Return

\* the loop of waitConnected keeps running (sleep, then the next pass), and
\* the switches answer connected in the end: as long as the loop waits, the
\* first switch it still waits for answers connected in some pass
SpecLive ==
    /\ Init /\ [][NextWait]_vars
    /\ WF_vars(WcPoll)
    /\ SF_vars(PollConnectsFirst)

\* ------------------------------------------------------------------ claims
HostIds == {i \in 1..Len(nodes) : nodes[i].role = "host"}
DefaultIpHosts == {i \in HostIds : "ip" \notin nodes[i].given}
NameOf(id) == nodes[id].name
CountCalls(f, id) == Cardinality({i \in 1..Len(calls) : calls[i].f = f /\ calls[i].id = id})

\* C1: after build() from a topology with H hosts, S switches and L links,
\* no host, switch or link having been added before, len(net) is H + S + the
\* number of controllers, and the link set holds one distinct Link per
\* topology link, joining that link's two nodes.
C1_BuildCounts ==
    (last.op = "build" /\ last.res = "ok" /\ last.fresh /\ cfg.topo # 0) =>
        LET t == Topos[cfg.topo]
        IN /\ Len(hosts) = Len(t.hosts)
           /\ Len(switches) = Len(t.switches)
           /\ NetLen(Self) = Len(t.hosts) + Len(t.switches) + Len(controllers)
           /\ Len(links) = Len(t.links)
           /\ Cardinality(Range(links)) = Len(t.links)
           /\ [i \in 1..Len(links) |->
                 <<NameOf(linkObjs[links[i]].node1),
                   NameOf(linkObjs[links[i]].node2)>>] = TopoLinks(t)

C1_Witness ==
    /\ last.op = "build" /\ last.res = "ok" /\ last.fresh /\ cfg.topo = 2
    /\ Len(links) = 3 /\ Len(controllers) = 1

\* C2: the default IPs of the hosts added without an ip parameter are
\* pairwise distinct, strictly increasing in the order of adding and inside
\* the base prefix 10.0.0.0/8; when only addHost has advanced the counter,
\* the k-th host added has the default 10.0.0.k/8.
C2_DefaultIpsIncrease ==
    /\ \A i \in DefaultIpHosts, j \in DefaultIpHosts :
          i < j => ipNum(nodes[i].params.ip.addr) < ipNum(nodes[j].params.ip.addr)
    /\ \A i \in DefaultIpHosts :
          /\ nodes[i].params.ip.plen = PrefixLen
          /\ nodes[i].params.ip.addr[1] = 10
          /\ nextIP = 1 + Cardinality(HostIds) =>
                nodes[i].params.ip.addr =
                    <<10, 0, 0, Cardinality({j \in HostIds : j <= i})>>

C2_Witness ==
    /\ Cardinality(DefaultIpHosts) = 3
    /\ nextIP = 4
    /\ \E i \in DefaultIpHosts : nodes[i].params.ip.addr = <<10, 0, 0, 3>>

\* C3: an add under a name that is registered already fails with a
\* duplicate-name error and leaves the name-to-node map and the role
\* sequences as they were.
C3_DuplicateRejected ==
    (last.op \in {"addHost", "addSwitch", "addController"} /\ last.dup) =>
        /\ last.res = "raised"
        /\ nameToNode = last.pre.nameToNode
        /\ hosts = last.pre.hosts
        /\ switches = last.pre.switches
        /\ controllers = last.pre.controllers

\* C4: addHost( name ) for a name not registered, followed by
\* removeHost( name ), leaves the name-to-node map and the hosts sequence
\* as they were before the add.
C4_AddRemoveRoundTrip ==
    (trip.kind = "addHost" /\ trip.done) =>
        /\ nameToNode = trip.nameToNode
        /\ hosts = trip.hosts

C4_Witness ==
    /\ trip.kind = "addHost" /\ trip.done
    /\ started /\ last.op = "removeHost" /\ last.res = "True"
    /\ hosts # <<>>

\* C5: removeLink of a link of the link set followed by addLink between the
\* same two nodes brings the link set back to its size before the removal;
\* the set then holds the Link just constructed and not the removed one.
C5_RemoveAddLink ==
    (trip.kind = "removeLink" /\ trip.done) =>
        /\ Len(links) = trip.size
        /\ Len(linkObjs) \in Range(links)
        /\ trip.link \notin Range(links)
        /\ Len(linkObjs) # trip.link

C5_Witness ==
    /\ trip.kind = "removeLink" /\ trip.done
    /\ last.op = "addLink" /\ Len(links) >= 2

\* C6: when waitConnected returns False after its timeout, the switches it
\* warned about are exactly the switches not connected at the final
\* re-check.
C6_WarnsExactlyUnconnected ==
    (last.op = "waitConnected" /\ last.res = "False" /\ last.path = "timeout") =>
        Range(last.warned) = Range(last.atBreak) \ last.conn

\* C7: waitConnected returns True exactly when every switch has been seen
\* connected; in particular it returns True when every switch left at the
\* timeout is connected at the final re-check.
C7_TrueIffAllConnected ==
    (last.op = "waitConnected" /\ last.res # "polling") =>
        /\ last.res = "True" <=> last.seen = Range(switches)
        /\ (last.path = "timeout" /\ Range(last.atBreak) \subseteq last.conn)
              => last.res = "True"

\* C8: stop() is best-effort: whether or not one of its calls fails, every
\* controller and every link gets its stop and every switch and every host
\* its terminate.
C8_StopBestEffort ==
    last.op = "stop" =>
        /\ \A c \in Range(controllers) : CountCalls("controller.stop", c) >= 1
        /\ \A l \in Range(links) : CountCalls("link.stop", l) >= 1
        /\ \A s \in Range(switches) : CountCalls("switch.terminate", s) >= 1
        /\ \A h \in Range(hosts) : CountCalls("host.terminate", h) >= 1

\* the stage of stop() a call belongs to
StageOf(f) ==
    CASE f = "controller.stop" -> 1
      [] f = "stopXterms" -> 2
      [] f = "link.stop" -> 3
      [] f = "batchShutdown" -> 4
      [] f \in {"switch.stop", "switch.terminate"} -> 5
      [] f = "host.terminate" -> 6

\* C9: within one stop() the calls come stage by stage: controllers,
\* terminals, links, batch shutdown, the switches' stop and terminate, hosts.
C9_StopStageOrder ==
    last.op = "stop" =>
        \A i \in 1..Len(calls), j \in 1..Len(calls) :
            i < j => StageOf(calls[i].f) <= StageOf(calls[j].f)

C9_Witness ==
    /\ last.op = "stop" /\ last.res = "ok"
    /\ {calls[i].f : i \in 1..Len(calls)} =
          {"controller.stop", "stopXterms", "link.stop", "batchShutdown",
           "switch.stop", "switch.terminate", "host.terminate"}

\* C10: when stop() has returned, every host and every switch of the role
\* sequences was terminated exactly once and every link of the link set
\* stopped exactly once, and stop() gave a removed host or a removed link no
\* call.
C10_StopExactlyOnce ==
    (last.op = "stop" /\ last.res = "ok") =>
        /\ \A h \in 1..Len(nodes) :
              CountCalls("host.terminate", h) = IF h \in Range(hosts) THEN 1 ELSE 0
        /\ \A s \in 1..Len(nodes) :
              CountCalls("switch.terminate", s) = IF s \in Range(switches) THEN 1 ELSE 0
        /\ \A l \in 1..Len(linkObjs) :
              CountCalls("link.stop", l) = IF l \in Range(links) THEN 1 ELSE 0
        /\ \A i \in 1..Len(calls) :
              calls[i].f = "switch.stop" => calls[i].id \in Range(switches)

C10_Witness ==
    /\ last.op = "stop" /\ last.res = "ok" /\ started
    /\ HostIds \ Range(hosts) # {}
    /\ hosts # <<>> /\ switches # <<>> /\ links # <<>>

\* the positions of the calls of f among the calls of the latest operation
CallIdx(f) == {i \in 1..Len(calls) : calls[i].f = f}

\* the calls build() issues
BuildCallNames == {"attach", "configDefault", "makeTerms", "setARP"}

\* C11: start() runs build() first when the network is not built (and starts
\* nothing when build() raises), then starts every controller once, and
\* after all controllers starts every switch exactly once, each with the
\* full list of controllers.
C11_StartOrder ==
    last.op = "start" =>
        /\ last.res = "raised" =>
              /\ ~last.wasBuilt /\ ~built
              /\ CallIdx("controller.start") = {} /\ CallIdx("switch.start") = {}
        /\ last.res = "ok" =>
              /\ built
              /\ \A h \in Range(hosts) :
                    CountCalls("configDefault", h) = IF last.wasBuilt THEN 0 ELSE 1
              /\ \A i \in 1..Len(calls), j \in CallIdx("controller.start") :
                    calls[i].f \in BuildCallNames => i < j
              /\ \A n \in 1..Len(nodes) :
                    /\ CountCalls("controller.start", n) =
                          IF n \in Range(controllers) THEN 1 ELSE 0
                    /\ CountCalls("switch.start", n) =
                          IF n \in Range(switches) THEN 1 ELSE 0
              /\ \A i \in CallIdx("controller.start"), j \in CallIdx("switch.start") :
                    i < j
              /\ \A j \in CallIdx("switch.start") : calls[j].ids = controllers

C11_Witness ==
    /\ last.op = "start" /\ last.res = "ok" /\ ~last.wasBuilt
    /\ Len(controllers) >= 2 /\ Len(switches) >= 2 /\ hosts # <<>>

\* C12: in start() the batch start of a class comes before every individual
\* start of a switch of that class, and a switch of the batch call's success
\* set gets no individual start.
C12_BatchStartFirst ==
    (last.op = "start" /\ last.res = "ok") =>
        /\ \A i \in CallIdx("batchStartup"), j \in CallIdx("switch.start") :
              calls[j].id \in Range(calls[i].ids) => i < j
        /\ \A j \in CallIdx("switch.start") : calls[j].id \notin last.success

\* the registered switches of class c
SwitchesOf(c) == {s \in Range(switches) : nodes[s].cls = c}

\* C13: in a stop() that returns, batchShutdown is called exactly once per
\* class that offers it and has registered switches, with exactly those
\* switches, before every individual switch stop; a switch of a success set
\* gets no stop(), every other switch exactly one, and every switch exactly
\* one terminate().
C13_BatchShutdown ==
    (last.op = "stop" /\ last.res = "ok") =>
        /\ \A c \in BatchClasses :
              Cardinality({i \in CallIdx("batchShutdown") :
                              Range(calls[i].ids) = SwitchesOf(c)}) =
                  IF SwitchesOf(c) # {} THEN 1 ELSE 0
        /\ \A i \in CallIdx("batchShutdown") :
              /\ \E c \in BatchClasses : Range(calls[i].ids) = SwitchesOf(c)
              /\ Len(calls[i].ids) = Cardinality(Range(calls[i].ids))
        /\ \A i \in CallIdx("batchShutdown"), j \in CallIdx("switch.stop") : i < j
        /\ \A s \in Range(switches) :
              /\ CountCalls("switch.stop", s) = IF s \in last.stopped THEN 0 ELSE 1
              /\ CountCalls("switch.terminate", s) = 1

C13_Witness ==
    /\ last.op = "stop" /\ last.res = "ok"
    /\ \A c \in BatchClasses : SwitchesOf(c) # {}
    /\ SwitchesOf("UserSwitch") # {}
    /\ last.stopped # {} /\ last.stopped # BatchStoppable(Self)

\* C14: removeHost( name ) for a name that is not registered returns False
\* without raising, stops no node and leaves the name-to-node map, the role
\* sequences and the link set unchanged.
C14_RemoveUnknown ==
    (last.op = "removeHost" /\ ~last.known) =>
        /\ last.res = "False"
        /\ calls = <<>>
        /\ nameToNode = last.pre.nameToNode
        /\ hosts = last.pre.hosts
        /\ switches = last.pre.switches
        /\ controllers = last.pre.controllers
        /\ links = last.pre.links

\* link l joins the nodes n1 and n2, in either order
Joins(l, n1, n2) ==
    \/ linkObjs[l].node1 = n1 /\ linkObjs[l].node2 = n2
    \/ linkObjs[l].node1 = n2 /\ linkObjs[l].node2 = n1

\* the positions, in the link set a removeLink by names found, of the links
\* joining the two endpoints it was given
MatchIdx ==
    {i \in 1..Len(last.pre) : Joins(last.pre[i], last.ends[1], last.ends[2])}

\* C15: removeLink given two endpoints that no link of the link set joins,
\* in either order, returns without raising, leaves the link set as it was
\* and tears no link down.
C15_RemoveLinkNoMatch ==
    (last.op = "removeLink" /\ last.byNames /\ MatchIdx = {}) =>
        /\ last.res = "notfound"
        /\ links = last.pre
        /\ calls = <<>>

C15_Witness ==
    /\ last.op = "removeLink" /\ last.byNames /\ MatchIdx = {}
    /\ last.ends[1] # None /\ last.ends[2] # None
    /\ links # <<>>

\* C16: removeLink given two endpoints that some link joins tears down and
\* removes exactly the first such link in link-set order; every other link,
\* a parallel link between the two nodes included, stays where it was.
C16_RemoveFirstMatch ==
    (last.op = "removeLink" /\ last.byNames /\ MatchIdx # {}) =>
        LET i == CHOOSE k \in MatchIdx : \A m \in MatchIdx : k <= m
        IN /\ last.res = "ok"
           /\ links = SubSeq(last.pre, 1, i - 1)
                         \o SubSeq(last.pre, i + 1, Len(last.pre))
           /\ calls = <<Call("link.delete", last.pre[i])>>

C16_Witness ==
    /\ last.op = "removeLink" /\ last.byNames /\ last.res = "ok"
    /\ Cardinality(MatchIdx) >= 2 /\ 1 \notin MatchIdx
    /\ Len(links) = Len(last.pre) - 1

\* C17: for every draw, randMac() returns a MAC whose first octet has the
\* multicast bit (the lowest) clear and the locally-administered bit (the
\* second lowest) set.
C17_RandMacBits ==
    last.op = "randMac" =>
        /\ last.mac[1] % 2 = 0
        /\ (last.mac[1] \div 2) % 2 = 1

C17_Witness ==
    /\ last.op = "randMac"
    /\ last.draw.hi = 255 * 65536 + 65535
    /\ last.mac = <<254, 255, 255, 0, 0, 1>>

\* C18: build() from a topology on a network without controllers and with k
\* controller classes configured creates exactly k controllers, named
\* c0..c(k-1) in that order, ahead of every host and switch it creates;
\* with a controller present already, or with no class configured, it
\* creates no controller.
C18_DefaultControllers ==
    (last.op = "build" /\ cfg.topo # 0) =>
        LET n0 == last.pre.nodes
            created == {n \in n0 + 1..Len(nodes) : nodes[n].role = "controller"}
        IN IF last.pre.controllers = <<>> /\ cfg.nCtrl > 0
           THEN /\ created = n0 + 1..n0 + cfg.nCtrl
                /\ controllers = [i \in 1..cfg.nCtrl |-> n0 + i]
                /\ \A i \in 1..cfg.nCtrl :
                      /\ nodes[n0 + i].name = CtrlName(i - 1)
                      /\ nameToNode[CtrlName(i - 1)] = n0 + i
           ELSE /\ created = {}
                /\ controllers = last.pre.controllers

C18_Witness ==
    /\ last.op = "build" /\ cfg.topo # 0 /\ cfg.nCtrl = 2
    /\ last.pre.controllers = <<>> /\ last.pre.nodes > 0
    /\ Len(controllers) = 2 /\ hosts # <<>> /\ switches # <<>>

\* the switch objects constructed, in construction order
SwitchIds == {i \in 1..Len(nodes) : nodes[i].role = "switch"}

\* C19: with switches not namespaced and a listen-port base P configured,
\* every addSwitch advances the listen-port counter by one: the i-th switch
\* added, counting from 0, has the default port P + i, no two switches the
\* same; with namespaced switches, or no base, the counter never moves.
C19_ListenPorts ==
    IF ~cfg.inNamespace /\ cfg.listenPort # None /\ cfg.listenPort # 0
    THEN /\ listenPort = cfg.listenPort + Cardinality(SwitchIds)
         /\ \A s \in SwitchIds :
               nodes[s].params.listenPort =
                   cfg.listenPort + Cardinality({t \in SwitchIds : t < s})
         /\ \A s \in SwitchIds, t \in SwitchIds :
               s # t => nodes[s].params.listenPort # nodes[t].params.listenPort
    ELSE /\ listenPort = cfg.listenPort
         /\ \A s \in SwitchIds : nodes[s].params.listenPort = cfg.listenPort

C19_Witness ==
    /\ ~cfg.inNamespace /\ cfg.listenPort = 6634
    /\ Cardinality(SwitchIds) = 3
    /\ \E s \in SwitchIds : nodes[s].params.listenPort = 6636
    /\ listenPort = 6637

\* waitConnected without a timeout never leaves its polling loop by the
\* break, and returns only True, every switch having been seen connected
NoBudgetSafe ==
    /\ (wc.pc # "idle" /\ wc.timeout = None) => wc.pc = "poll"
    /\ (last.op = "waitConnected" /\ last.res # "polling"
           /\ last.timeout = None) =>
          /\ last.res = "True"
          /\ last.path = "connected"
          /\ last.seen = Range(switches)

\* C20: with timeout=None, waitConnected never reports failure and returns
\* only once every switch has been seen connected (so never, if some switch
\* never connects); when every switch answers connected at some poll, it
\* does return True.
C20_NoTimeoutWait ==
    /\ []NoBudgetSafe
    /\ (wc.pc = "poll" /\ wc.timeout = None)
          ~> (last.op = "waitConnected" /\ last.res = "True")

C20_Witness ==
    /\ last.op = "waitConnected" /\ last.res = "True" /\ last.timeout = None
    /\ last.caller = "user" /\ Cardinality(last.seen) >= 2

\* the sentinels among the pairs the latest pass of monitor() yielded
SentinelIdx == {i \in 1..Len(mon.yields) : mon.yields[i] = Sentinel}

\* C21: a pass of monitor() yields the ( None, None ) sentinel, once, exactly
\* when timeoutms >= 0 and poll() found no stream ready; with timeoutms = -1
\* no pass yields it, and no pass in which a stream was ready.
C21_SentinelWhenIdle ==
    (mon.pc = "run" /\ ~mon.fresh) =>
        /\ Cardinality(SentinelIdx) =
              IF mon.ready = <<>> /\ mon.timeoutms >= 0 THEN 1 ELSE 0
        /\ mon.timeoutms = -1 => SentinelIdx = {} /\ mon.ready # <<>>
        /\ \A i \in 1..Len(mon.yields) :
              i \notin SentinelIdx =>
                  \E j \in 1..Len(mon.ready) :
                      /\ mon.ready[j].host = mon.yields[i].host
                      /\ mon.ready[j].pollin

C21_Witness ==
    /\ mon.pc = "run" /\ ~mon.fresh /\ mon.timeoutms = 0
    /\ mon.ready = <<>> /\ mon.yields = <<Sentinel>>
    /\ Len(mon.hosts) >= 2 /\ mon.closed = {}

\* C22: once every monitored stream has closed, the sequence monitor()
\* produces ends.
C22_EndsWhenAllClosed ==
    (mon.pc = "run" /\ mon.closed = Range(mon.hosts)) ~> (mon.pc # "run")

\* C23: build() on a network with inNamespace set and the control-network
\* hook of Mininet raises to the caller, directly or through start(), and
\* the steps after the hook do not run: no host is configured, no terminal
\* is started, no ARP entry is set, and the network is not marked built.
C23_BuildAborts ==
    (last.op \in {"build", "start"} /\ cfg.inNamespace) =>
        /\ last.res = "raised"
        /\ ~built
        /\ terms = <<>>
        /\ \A i \in 1..Len(calls) :
              calls[i].f \notin {"configDefault", "makeTerms", "setARP",
                                 "controller.start", "switch.start"}

C23_Witness ==
    /\ last.op = "build" /\ last.res = "raised" /\ cfg.inNamespace
    /\ cfg.xterms /\ cfg.autoStaticArp
    /\ Len(hosts) >= 2 /\ ~built

\* a call of op made in this step
CallOf(op) == nops' = nops + 1 /\ last'.op = op

\* the built flag never falls; build() and start() set it when they
\* complete; start() on a built network constructs nothing, on an unbuilt
\* one it builds; stop() leaves the flag alone
BuiltStep ==
    /\ built => built'
    /\ (~built /\ built') =>
          \/ (CallOf("build") \/ CallOf("start")) /\ last'.res = "ok"
          \/ CallOf("run") /\ last'.res = "running"
    /\ ((CallOf("build") \/ CallOf("start")) /\ last'.res = "ok") => built'
    /\ CallOf("start") =>
          /\ last'.wasBuilt = built
          /\ built =>
                /\ nodes' = nodes /\ linkObjs' = linkObjs
                /\ hosts' = hosts /\ switches' = switches
                /\ controllers' = controllers /\ links' = links
          /\ (~built /\ cfg.topo # 0) =>
                /\ Len(nodes') > Len(nodes)
                /\ Len(hosts') = Len(hosts) + Len(Topos[cfg.topo].hosts)
    /\ CallOf("stop") => built' = built /\ nodes' = nodes

\* C24: the built flag is one-way: it turns true only when build()
\* completes, directly or inside start(), and never turns false; start()
\* calls build() exactly when the flag is false, so that start() and stop()
\* on a built network never instantiate the topology again.
C24_BuiltOneWay == [][BuiltStep]_vars

C24_Witness ==
    /\ last.op = "start" /\ last.res = "ok" /\ last.wasBuilt
    /\ started /\ built /\ cfg.topo # 0
    /\ Len(hosts) = Len(Topos[cfg.topo].hosts)

\* host objects that took their core from self.nextCore, and the number of
\* host objects constructed before a given one
PinnedHosts == {i \in HostIds : "cores" \in DOMAIN nodes[i].params
                                /\ "cores" \notin nodes[i].given}
HostRank(i) == Cardinality({j \in HostIds : j < i})

AutoMacHosts == {i \in HostIds : "mac" \in DOMAIN nodes[i].params
                                 /\ "mac" \notin nodes[i].given}

\* C26: with autoSetMacs every host added without a mac gets a MAC made
\* from the counter value its default IP was made from, and that MAC has
\* the locally-administered bit set and the multicast bit clear.
C26_AutoMacLocal ==
    cfg.autoSetMacs =>
        \A i \in AutoMacHosts :
            /\ i \in DefaultIpHosts =>
                  nodes[i].params.mac =
                      macColonHex(ipNum(nodes[i].params.ip.addr) - IpBaseNum)
            /\ nodes[i].params.mac[1] % 2 = 0
            /\ (nodes[i].params.mac[1] \div 2) % 2 = 1

\* the number of host objects in a node table
HostCount(ns) == Cardinality({i \in 1..Len(ns) : ns[i].role = "host"})

\* the counter moves by one per host constructed and per getNextIp call and
\* by nothing else; the address handed out is the one at the old counter,
\* above every address handed to a host before
CounterStep ==
    /\ nextIP' = nextIP + (HostCount(nodes') - HostCount(nodes))
                        + (IF CallOf("getNextIp") THEN 1 ELSE 0)
    /\ nextIP' >= nextIP
    /\ CallOf("addHost") =>
          /\ nextIP' = nextIP + 1
          /\ "ip" \notin nodes'[Len(nodes')].given =>
                ipNum(nodes'[Len(nodes')].params.ip.addr) = IpBaseNum + nextIP
    /\ CallOf("getNextIp") =>
          /\ nextIP' = nextIP + 1
          /\ ipNum(last'.ip.addr) = IpBaseNum + nextIP
    /\ CallOf("removeHost") => nextIP' = nextIP
    /\ \A i \in DefaultIpHosts :
          ipNum(nodes[i].params.ip.addr) < IpBaseNum + nextIP

\* C27: the address counter starts at 1, goes up by exactly one on every
\* getNextIp and every addHost, with or without an ip of the caller, and no
\* operation, removeHost included, lowers it; so no default address is
\* handed out twice.
C27_CounterMonotone == (nextIP = 1) /\ [][CounterStep]_vars

C27_Witness ==
    /\ last.op = "getNextIp"
    /\ hosts = <<>> /\ HostIds # {}
    /\ \E i \in HostIds : "ip" \in nodes[i].given
    /\ ipNum(last.ip.addr) = IpBaseNum + 2
    /\ nextIP = 3

\* the name was registered for a host when removeHost was called
RemovedAHost ==
    /\ last.known
    /\ last.pre.nameToNode[last.name] \in Range(last.pre.hosts)

\* C28: on a Containernet, removeHost( name ) and removeDocker( name ) for a
\* registered host return True, having taken the host out of the hosts
\* sequence and the name-to-node map and stopped it with deleteIntfs.
C28_ContainernetRemoves ==
    (last.op = "removeHost" /\ cfg.containernet /\ RemovedAHost) =>
        /\ last.res = "True"
        /\ last.name \notin DOMAIN nameToNode
        /\ last.pre.nameToNode[last.name] \notin Range(hosts)
        /\ CountCalls("node.stop", last.pre.nameToNode[last.name]) = 1

\* the links of a link set that join the nodes n1 and n2
JoinCount(ls, n1, n2) ==
    Cardinality({i \in 1..Len(ls) : Joins(ls[i], n1, n2)})

\* C29: removeLink given the two endpoints of a link, each as a name or as
\* a node object, whichever for each, finds the link and removes it.
C29_RemoveLinkAnyForm ==
    (/\ last.op = "removeLink" /\ "form" \in DOMAIN last
     /\ JoinCount(last.pre, last.intended[1], last.intended[2]) > 0) =>
        /\ last.res = "ok"
        /\ Len(links) = Len(last.pre) - 1
        /\ JoinCount(links, last.intended[1], last.intended[2])
             = JoinCount(last.pre, last.intended[1], last.intended[2]) - 1

\* C30: addLink appends one Link, constructed by the call, at the end of
\* the link set and leaves the links before it as they were and in order;
\* the nodes may be joined already, each call adds one more parallel link.
C30_AddLinkAppends ==
    last.op = "addLink" =>
        /\ links = Append(last.pre, Len(linkObjs))
        /\ Len(linkObjs) \notin Range(last.pre)
        /\ Joins(Len(linkObjs), last.ends[1], last.ends[2])
        /\ JoinCount(links, last.ends[1], last.ends[2])
             = JoinCount(last.pre, last.ends[1], last.ends[2]) + 1

C30_Witness ==
    /\ last.op = "addLink"
    /\ JoinCount(last.pre, last.ends[1], last.ends[2]) = 2
    /\ JoinCount(links, last.ends[1], last.ends[2]) = 3
    /\ Len(links) = 4

\* the link objects the latest addLink or build constructed
NewLinks ==
    IF last.op = "addLink" THEN {Len(linkObjs)}
    ELSE IF last.op = "build" THEN (last.pre.linkObjs + 1)..Len(linkObjs)
    ELSE {}

\* the node at side 1 or 2 of a link object
EndOf(l, side) == IF side = 1 THEN linkObjs[l].node1 ELSE linkObjs[l].node2

\* the attach calls made for a side of a link
AttachIdx(l, side) ==
    {i \in 1..Len(calls) : calls[i].f = "attach" /\ calls[i].ids = <<l, side>>}

\* C31: for every link addLink creates, in build() or afterwards, each
\* endpoint that is an OVSSwitch gets exactly one attach call, for the
\* interface of its own side, made before the link is in the link set; an
\* endpoint that is no OVSSwitch gets none.
C31_AttachOncePerSwitchEnd ==
    \A l \in NewLinks : \A side \in {1, 2} :
        /\ l \in Range(links)
        /\ IF IsOVSSwitch(nodes[EndOf(l, side)])
           THEN /\ Cardinality(AttachIdx(l, side)) = 1
                /\ \A i \in AttachIdx(l, side) :
                      calls[i].id = EndOf(l, side) /\ ~calls[i].listed
           ELSE AttachIdx(l, side) = {}

C31_Witness ==
    /\ last.op = "addLink"
    /\ IsOVSSwitch(nodes[EndOf(Len(linkObjs), 1)])
    /\ ~IsOVSSwitch(nodes[EndOf(Len(linkObjs), 2)])
    /\ nodes[EndOf(Len(linkObjs), 2)].role = "switch"
    /\ AttachIdx(Len(linkObjs), 1) # {} /\ started

\* the nodes the calls named f were made on, in the order of the calls
CallIds(f) ==
    LET c == SelectSeq(calls, LAMBDA x : x.f = f)
    IN [i \in 1..Len(c) |-> c[i].id]

\* the switches the batch calls named f were handed, call after call
RECURSIVE Flatten(_)
Flatten(ss) == IF ss = <<>> THEN <<>> ELSE Head(ss) \o Flatten(Tail(ss))
BatchIds(f) ==
    LET c == SelectSeq(calls, LAMBDA x : x.f = f)
    IN Flatten([i \in 1..Len(c) |-> c[i].ids])

\* q runs through some of the members of reg, each once, in the order of reg
InOrder(q, reg) == q = SelectSeq(reg, LAMBDA x : x \in Range(q))

\* the per-node loops of start() and stop() follow the role sequences
LoopsInOrder ==
    /\ (last.op = "start" /\ last.res = "ok") =>
          /\ CallIds("controller.start") = controllers
          /\ CallIds("switch.start") = switches
    /\ last.op = "stop" =>
          /\ InOrder(CallIds("controller.stop"), controllers)
          /\ InOrder(CallIds("switch.stop"), switches)
          /\ InOrder(CallIds("switch.terminate"), switches)
          /\ InOrder(CallIds("host.terminate"), hosts)
    /\ (last.op = "stop" /\ last.res = "ok") =>
          /\ CallIds("controller.stop") = controllers
          /\ CallIds("switch.terminate") = switches
          /\ CallIds("host.terminate") = hosts

\* a removal keeps the hosts left in their order, and iteration goes
\* through hosts, switches, controllers, each in its order
OrderKept ==
    /\ (last.op = "removeHost" /\ last.res = "True") =>
          InOrder(hosts, last.pre.hosts)
    /\ NetIter(Self) = [i \in 1..Len(hosts) |-> NameOf(hosts[i])]
                        \o [i \in 1..Len(switches) |-> NameOf(switches[i])]
                        \o [i \in 1..Len(controllers) |-> NameOf(controllers[i])]
    /\ Len(NetIter(Self)) = NetLen(Self)

\* C32 as stated: within one start() or stop() the nodes of a role are
\* handled in the order they were added, in the per-node loops and in the
\* batch calls alike; a removal keeps the order of the rest; iteration
\* yields hosts, then switches, then controllers.
C32_InsertionOrder ==
    /\ LoopsInOrder
    /\ OrderKept
    /\ last.op = "start" => InOrder(BatchIds("batchStartup"), switches)
    /\ last.op = "stop" => InOrder(BatchIds("batchShutdown"), switches)

\* C32 amended: the per-node loops of start() and stop() handle the nodes
\* of a role in the order they were added; the batch calls are made class
\* by class, each with the switches of its class in the order they were
\* added; a removal keeps the order of the rest; iteration yields hosts,
\* then switches, then controllers.
C32_OrderWithinClass ==
    /\ LoopsInOrder
    /\ OrderKept
    /\ \A i \in 1..Len(calls) :
          calls[i].f \in {"batchStartup", "batchShutdown"} =>
              /\ InOrder(calls[i].ids, switches)
              /\ \E c \in BatchClasses :
                    Range(calls[i].ids) = {s \in Range(switches) : nodes[s].cls = c}

C32_Witness ==
    /\ last.op = "stop" /\ last.res = "ok"
    /\ Len(hosts) >= 2 /\ Len(switches) >= 2
    /\ Len(SelectSeq(calls, LAMBDA x : x.f = "batchShutdown")) = 2
    /\ ~InOrder(BatchIds("batchShutdown"), switches)

\* while the wait start() made is running, start() has made its start
\* calls, the wait has no timeout and so stays in its polling loop; when it
\* returns, which is when start() returns, every switch was seen connected
StartWaitInv ==
    /\ (wc.pc # "idle" /\ wc.caller = "start") =>
          /\ cfg.waitConn
          /\ last.op = "start" /\ last.res = "ok"
          /\ Len(calls) >= Len(startCalls(Self))
          /\ SubSeq(calls, Len(calls) - Len(startCalls(Self)) + 1, Len(calls))
                = startCalls(Self)
          /\ wc.timeout = None /\ wc.pc = "poll"
          /\ Range(wc.remaining) \cup wc.seen = Range(switches)
    /\ (last.op = "start" /\ last.res = "ok" /\ cfg.waitConn) =>
          wc.pc # "idle" /\ wc.caller = "start"
    /\ (last.op = "start" /\ ~cfg.waitConn) => wc.pc = "idle"
    /\ (last.op = "waitConnected" /\ last.res # "polling"
           /\ last.caller = "start") =>
          /\ last.res = "True"
          /\ last.seen = Range(switches)
          /\ last.remaining = <<>>

\* a wait of start() begins in a start() with waitConn set and nowhere else,
\* once per call, and ends only by returning to the caller of start()
StartWaitStep ==
    /\ (wc.pc = "idle" /\ wc'.pc # "idle" /\ wc'.caller = "start") =>
          CallOf("start") /\ cfg.waitConn /\ wc'.remaining = switches'
    /\ (CallOf("start") /\ last'.res = "ok" /\ cfg.waitConn) =>
          wc.pc = "idle" /\ wc'.pc = "poll" /\ wc'.caller = "start"
    /\ (wc.pc # "idle" /\ wc.caller = "start" /\ wc'.pc = "idle") =>
          last'.op = "waitConnected" /\ last'.caller = "start"
    /\ (wc.pc # "idle" /\ wc.caller = "start") => nops' = nops /\ calls' = calls

C34_RunStops ==
    (last.op = "run" /\ last.res # "running" /\ last.phase # "start") =>
        /\ last.stopCalled
        /\ started
        /\ \A i \in 1..Len(calls) :
              (calls[i].f \in {"controller.start", "switch.start", "batchStartup"})
                  <=> (i <= last.startLen /\ calls[i].f \notin BuildCallNames)

\* C35: after removeHost has removed a host, no link of the link set has
\* the removed host at either end; the ends of every link are nodes of the
\* registry.
C35_NoDanglingLinks ==
    (last.op = "removeHost" /\ last.res = "True" /\ RemovedAHost) =>
        \A i \in 1..Len(links) : \A side \in {1, 2} :
            /\ EndOf(links[i], side) # last.pre.nameToNode[last.name]
            /\ EndOf(links[i], side)
                  \in Range(hosts) \cup Range(switches) \cup Range(controllers)

\* every node constructed so far has a name of its own
DistinctNames ==
    \A i, j \in 1..Len(nodes) : nodes[i].name = nodes[j].name => i = j

\* the nodes of the role sequences
Listed == Range(hosts) \cup Range(switches) \cup Range(controllers)

\* C36: with distinct names, after any calls of addHost, addSwitch,
\* addController and removeHost, removeHost of a switch or a controller
\* included, the names of the name-to-node map are the names of the nodes
\* in the role sequences, each node in one sequence, and len( net ) is the
\* number of names.
C36_RegistryAgrees ==
    DistinctNames =>
        /\ \A name \in DOMAIN nameToNode : nameToNode[name] \in Listed
        /\ \A n \in Listed :
              /\ NameOf(n) \in DOMAIN nameToNode
              /\ nameToNode[NameOf(n)] = n
              /\ Cardinality({r \in {hosts, switches, controllers} :
                                 n \in Range(r)}) = 1
        /\ NetLen(Self) = Cardinality(DOMAIN nameToNode)

\* a stop() leaves the registry, the role sequences, the link set and the
\* built flag as they were; the calls it made when none raised are the
\* calls a stop() would make on the state it leaves
StopFrame ==
    CallOf("stop") =>
        /\ nameToNode' = nameToNode
        /\ hosts' = hosts /\ switches' = switches
        /\ controllers' = controllers
        /\ links' = links
        /\ built' = built
        /\ last'.res = "ok" => calls' = stopCalls(Self', last'.stopped)

\* C37: stop() leaves the name-to-node map, the hosts, switches and
\* controllers sequences, the link set and the built flag unchanged, so
\* that a second stop() makes the same stop and terminate calls on the
\* same controllers, links, switches and hosts.
C37_StopFrame == [][StopFrame]_vars

C37_Witness ==
    /\ last.op = "stop" /\ last.res = "ok"
    /\ built /\ started
    /\ hosts # <<>> /\ switches # <<>> /\ links # <<>> /\ controllers # <<>>
    /\ calls = stopCalls(Self, last.stopped)

====
